---- MODULE Spec2Model ----
(***************************************************************************)
(* Model of the KOBO updater: the streaming row pipeline of the /clone and *)
(* /update routes (clone_feature.py, update_feature.py), the part of the   *)
(* routes that runs before the stream (form validation, table read, asset  *)
(* fetch, index construction, column check) and the validators of          *)
(* schemas.py.                                                             *)
(*                                                                         *)
(* Text is modelled as a sequence of one-character strings, so that the    *)
(* conversions of the code (split at '.', strip, lower, isdigit, float,    *)
(* int) are computed and not assumed.  A missing cell (pandas NaN / None)  *)
(* is the value NaN.                                                       *)
(***************************************************************************)
EXTENDS Integers, Sequences, FiniteSets, TLC

\* ------------------------------------------------------------------ bounds
\* Largest number of data rows of the uploaded table.
MaxRows == 3
\* Largest resume cursor the caller sends.
MaxSkip == 2
\* Largest number of items of the survey the index is built from.
MaxSurvey == 4
\* Largest number of characters that vary at the end of an identifier cell.
MaxIdTail == 3

\* ------------------------------------------------------------------ text
NaN == <<"<NaN>">>

Digits == {"0", "1", "2", "3", "4", "5", "6", "7", "8", "9"}
UpperLetters == <<"A","B","C","D","E","F","G","H","I","J","K","L","M",
                  "N","O","P","Q","R","S","T","U","V","W","X","Y","Z">>
LowerLetters == <<"a","b","c","d","e","f","g","h","i","j","k","l","m",
                  "n","o","p","q","r","s","t","u","v","w","x","y","z">>
Whitespace == {" ", "\t", "\n", "\r"}

LowerChar(c) ==
    IF \E i \in 1..26 : UpperLetters[i] = c
    THEN LowerLetters[CHOOSE i \in 1..26 : UpperLetters[i] = c]
    ELSE c

\* str.lower()
Lower(s) == [i \in 1..Len(s) |-> LowerChar(s[i])]

\* str.split('.')[0]: the text before the first decimal point.
SplitDot0(s) ==
    IF \E i \in 1..Len(s) : s[i] = "."
    THEN SubSeq(s, 1, (CHOOSE i \in 1..Len(s) :
                          s[i] = "." /\ \A j \in 1..(i-1) : s[j] # ".") - 1)
    ELSE s

\* str.strip(): drop leading and trailing whitespace.
Strip(s) ==
    IF \A i \in 1..Len(s) : s[i] \in Whitespace
    THEN <<>>
    ELSE LET first == CHOOSE i \in 1..Len(s) :
                          s[i] \notin Whitespace /\ \A j \in 1..(i-1) : s[j] \in Whitespace
             last  == CHOOSE i \in 1..Len(s) :
                          s[i] \notin Whitespace /\ \A j \in (i+1)..Len(s) : s[j] \in Whitespace
         IN  SubSeq(s, first, last)

\* str.isdigit(): non-empty and every character a digit.
IsDigit(s) == Len(s) > 0 /\ \A i \in 1..Len(s) : s[i] \in Digits

DigitVal(c) == CHOOSE n \in 0..9 : <<"0","1","2","3","4","5","6","7","8","9">>[n+1] = c

RECURSIVE IntOf(_)
\* int(float(sub_id)) of a digit string of at most 8 digits (exact in a double).
IntOf(s) == IF Len(s) = 0 THEN 0
            ELSE 10 * IntOf(SubSeq(s, 1, Len(s) - 1)) + DigitVal(s[Len(s)])

\* The text of a float that Python's float() accepts, restricted to the
\* characters the model's numeric cells are written with: an optional sign,
\* digits, and at most one decimal point with a digit on at least one side.
IsFloatText(s) ==
    LET body == IF Len(s) > 0 /\ s[1] \in {"+", "-"} THEN SubSeq(s, 2, Len(s)) ELSE s
        dots == {i \in 1..Len(body) : body[i] = "."}
    IN  /\ \A i \in 1..Len(body) : body[i] \in Digits \cup {"."}
        /\ Cardinality(dots) <= 1
        /\ \E i \in 1..Len(body) : body[i] \in Digits

\* float.is_integer() of a float text: every digit after the point is 0.
IsWholeNumber(s) ==
    \A i \in 1..Len(s) :
        s[i] = "." => \A j \in (i+1)..Len(s) : s[j] = "0"

RECURSIVE DropLeadingZeros(_)
DropLeadingZeros(s) == IF Len(s) > 1 /\ s[1] = "0" THEN DropLeadingZeros(Tail(s)) ELSE s

\* str(int(float(s))) of a whole-number float text: "10.0" -> "10", "-0" -> "0".
IntText(s) ==
    LET neg    == Len(s) > 0 /\ s[1] = "-"
        body   == IF Len(s) > 0 /\ s[1] \in {"+", "-"} THEN SubSeq(s, 2, Len(s)) ELSE s
        whole  == SplitDot0(body)
        digits == DropLeadingZeros(IF whole = <<>> THEN <<"0">> ELSE whole)
    IN  IF neg /\ digits # <<"0">> THEN <<"-">> \o digits ELSE digits

\* [s.strip() for s in str_val.replace(',', ' ').split()]: the maximal runs of
\* characters that are neither a comma nor whitespace, in order.
RECURSIVE Tokens(_)
Tokens(s) ==
    LET sep(c) == c \in Whitespace \cup {","}
    IN  IF \A i \in 1..Len(s) : sep(s[i]) THEN <<>>
        ELSE LET a == CHOOSE i \in 1..Len(s) : ~sep(s[i]) /\ \A j \in 1..(i-1) : sep(s[j])
                 b == CHOOSE i \in a..Len(s) :
                          /\ \A j \in a..i : ~sep(s[j])
                          /\ (i = Len(s) \/ sep(s[i+1]))
             IN  <<SubSeq(s, a, b)>> \o Tokens(SubSeq(s, b + 1, Len(s)))

RECURSIVE JoinSpace(_)
\* " ".join(selected_items)
JoinSpace(ts) == IF Len(ts) = 0 THEN <<>>
                 ELSE IF Len(ts) = 1 THEN ts[1]
                 ELSE ts[1] \o <<" ">> \o JoinSpace(Tail(ts))

\* A text that pd.to_datetime does not read as a date.
NoDate == <<>>

DigitChar(n) == <<"0","1","2","3","4","5","6","7","8","9">>[n + 1]

IsLeapYear(y) == (y % 4 = 0 /\ y % 100 # 0) \/ y % 400 = 0
DaysIn(y, m) ==
    IF m = 2 THEN (IF IsLeapYear(y) THEN 29 ELSE 28)
    ELSE IF m \in {4, 6, 9, 11} THEN 30 ELSE 31

\* The text has the layout YYYY-MM-DD or YYYY/MM/DD.
IsNumericDateLayout(s) ==
    /\ Len(s) = 10
    /\ s[5] \in {"-", "/"} /\ s[8] = s[5]
    /\ \A i \in {1, 2, 3, 4, 6, 7, 9, 10} : s[i] \in Digits

\* pd.to_datetime(s) on the texts the model's date cells are written with:
\* a text in one of the two numeric layouts that names a day of the calendar
\* is read as <<year, month, day>>; a text with a letter in it, and the
\* empty text, are not read as a date.
to_datetime(s) ==
    IF ~IsNumericDateLayout(s) THEN NoDate
    ELSE IF /\ IntOf(SubSeq(s, 6, 7)) \in 1..12
            /\ IntOf(SubSeq(s, 9, 10)) \in
                   1..DaysIn(IntOf(SubSeq(s, 1, 4)), IntOf(SubSeq(s, 6, 7)))
    THEN << IntOf(SubSeq(s, 1, 4)), IntOf(SubSeq(s, 6, 7)), IntOf(SubSeq(s, 9, 10)) >>
    ELSE NoDate

\* date.strftime('%Y-%m-%d')
strftime(date) ==
    << DigitChar(date[1] \div 1000), DigitChar((date[1] \div 100) % 10),
       DigitChar((date[1] \div 10) % 10), DigitChar(date[1] % 10), "-",
       DigitChar(date[2] \div 10), DigitChar(date[2] % 10), "-",
       DigitChar(date[3] \div 10), DigitChar(date[3] % 10) >>

\* ------------------------------------------------------------------ schemas.py
MinIdLen == 7
MaxIdLen == 8

\* KoboUpdateSchema.validate_kobo_id: "ok" or the ValueError it raises.
validate_kobo_id(v) ==
    IF ~IsDigit(v) THEN "The _id must contain only numbers."
    ELSE IF Len(v) < MinIdLen \/ Len(v) > MaxIdLen
         THEN "The _id length appears invalid for a Kobo record."
         ELSE "ok"

\* request.form.get(...) of a field the form does not carry.
None == <<"<None>">>

\* token: str = Field(..., min_length=10); asset_id: str = Field(..., min_length=5)
MinTokenLen == 10
MinAssetLen == 5

Alnum == Digits \cup {UpperLetters[i] : i \in 1..26} \cup {LowerLetters[i] : i \in 1..26}

\* The text that "$" lets the pattern end at: "$" matches at the end of the
\* text and also just before a newline that is its last character.
BeforeFinalNewline(v) ==
    IF Len(v) > 0 /\ v[Len(v)] = "\n" THEN SubSeq(v, 1, Len(v) - 1) ELSE v

\* re.match(r"^[a-zA-Z0-9]+$", v)
MatchesAlnum(v) ==
    /\ Len(BeforeFinalNewline(v)) > 0
    /\ \A i \in 1..Len(BeforeFinalNewline(v)) : BeforeFinalNewline(v)[i] \in Alnum

\* validate_asset_id: TRUE when the validator returns, FALSE when it raises.
validate_asset_id(v) == MatchesAlnum(v)

\* KoboUpdateSchema(**raw_data): TRUE when the model is built, FALSE when
\* pydantic raises.  server_url is a str in every request (the form default
\* is the empty text) and never fails.
KoboUpdateSchema(raw) ==
    /\ raw.token # None /\ Len(raw.token) >= MinTokenLen
    /\ raw.asset_id # None /\ Len(raw.asset_id) >= MinAssetLen
    /\ validate_asset_id(raw.asset_id)

\* ------------------------------------------------------------------ index construction
\* A survey item is [type, name, list]: item.get('type'), item.get('name')
\* (NoName when the item has none) and item.get('select_from_list_name').
NoName == <<>>

\* excluded_types of the two routes.
ExcludedTypes(operation) ==
    IF operation = "clone"
    THEN {"begin_group", "end_group", "calculate", "note", "deviceid"}
    ELSE {"begin_group", "end_group", "calculate", "start", "end", "note", "deviceid"}

\* The choices of the asset, and choice_map.get(list_name, []).
choices_list ==
    << [list_name |-> "colour", name |-> <<"a">>], [list_name |-> "colour", name |-> <<"b">>],
       [list_name |-> "tags", name |-> <<"a">>], [list_name |-> "tags", name |-> <<"b">>],
       [list_name |-> "tags", name |-> <<"c">>] >>
RECURSIVE ChoicesFrom(_, _)
ChoicesFrom(list_name, i) ==
    IF i > Len(choices_list) THEN <<>>
    ELSE IF choices_list[i].list_name = list_name
    THEN <<choices_list[i].name>> \o ChoicesFrom(list_name, i + 1)
    ELSE ChoicesFrom(list_name, i + 1)
choice_map(list_name) == ChoicesFrom(list_name, 1)

\* "/".join(parts)
RECURSIVE JoinSlash(_)
JoinSlash(parts) ==
    IF Len(parts) = 0 THEN <<>>
    ELSE IF Len(parts) = 1 THEN parts[1]
    ELSE parts[1] \o <<"/">> \o JoinSlash(Tail(parts))

\* group_stack.append(i_name)
PushGroup(stack, name) == Append(stack, name)

\* Variant of PopGroup: the outermost open group is closed.
PopGroup_Outermost(stack) == IF stack # <<>> THEN Tail(stack) ELSE stack

\* if group_stack: group_stack.pop()
PopGroup(stack) == IF stack # <<>> THEN SubSeq(stack, 1, Len(stack) - 1) ELSE stack

\* full_path = "/".join(group_stack + [i_name])
FullPath(stack, name) == JoinSlash(Append(stack, name))

\* The keys a leaf is registered under: clone sets path_map[i_name.lower()]
\* and path_map[full_path.lower()], update only path_map[full_path.lower()].
LeafKeys(operation, name, full_path) ==
    IF operation = "clone" THEN {Lower(name), Lower(full_path)} ELSE {Lower(full_path)}

\* map[k] = val for every k of keys
SetKeys(map, keys, val) ==
    [k \in (DOMAIN map) \cup keys |-> IF k \in keys THEN val ELSE map[k]]

\* The index after a leaf question is registered under full_path.
RegisterLeaf(ix, operation, item, full_path) ==
    [ group_stack |-> ix.group_stack,
      path_map |-> SetKeys(ix.path_map, LeafKeys(operation, item.name, full_path), full_path),
      types |-> SetKeys(ix.types, {full_path}, item.type),
      constraints |->
          IF item.type \in {"select_one", "select_multiple"}
          THEN SetKeys(ix.constraints, {full_path},
                       [type |-> item.type, allowed |-> choice_map(item.list)])
          ELSE ix.constraints ]

\* One iteration of "for item in survey" on the index ix =
\* [group_stack, path_map, types (field_types), constraints (field_constraints)].
IndexItem(ix, operation, item) ==
    IF item.type = "begin_group"
    THEN [ix EXCEPT !.group_stack = PushGroup(ix.group_stack, item.name)]
    ELSE IF item.type = "end_group"
    THEN [ix EXCEPT !.group_stack = PopGroup(ix.group_stack)]
    ELSE IF item.type \notin ExcludedTypes(operation) /\ item.name # NoName
    THEN RegisterLeaf(ix, operation, item, FullPath(ix.group_stack, item.name))
    ELSE ix

EmptyIndex ==
    [ group_stack |-> <<>>, path_map |-> [k \in {} |-> <<>>],
      types |-> [k \in {} |-> ""], constraints |-> [k \in {} |-> <<>>] ]

\* The whole loop over the survey, from item i on.
RECURSIVE BuildIndex(_, _, _, _)
BuildIndex(ix, operation, items, i) ==
    IF i > Len(items) THEN ix
    ELSE BuildIndex(IndexItem(ix, operation, items[i]), operation, items, i + 1)

\* The columns that are not one of start, end, _id, username, trimmed and
\* lower-cased (csv_cols).
MetaColumns == { <<"s","t","a","r","t">>, <<"e","n","d">>, <<"_","i","d">>,
                 <<"u","s","e","r","n","a","m","e">> }
csv_cols(df_columns) ==
    SelectSeq([i \in 1..Len(df_columns) |-> Lower(Strip(df_columns[i]))],
              LAMBDA c : c \notin MetaColumns)

\* Variant of invalid_cols: a column whose name starts with an underscore
\* is taken for a column of the export and not looked up.
invalid_cols_SkipsUnderscored(df_columns, map) ==
    SelectSeq(csv_cols(df_columns),
              LAMBDA c : c \notin DOMAIN map /\ (Len(c) = 0 \/ c[1] # "_"))

\* invalid_cols = [c for c in csv_cols if c not in path_map]
invalid_cols(df_columns, map) ==
    SelectSeq(csv_cols(df_columns), LAMBDA c : c \notin DOMAIN map)

\* The survey the row pipeline runs on: a grouped integer question, a
\* select_one and a select_multiple question with a choice list, a date
\* question, and a select_one and a select_multiple question whose list is
\* none of the choice lists of the asset.
DocSurvey ==
    << [type |-> "begin_group", name |-> <<"g","1">>, list |-> ""],
       [type |-> "integer", name |-> <<"q","1">>, list |-> ""],
       [type |-> "end_group", name |-> NoName, list |-> ""],
       [type |-> "select_one", name |-> <<"q","2">>, list |-> "colour"],
       [type |-> "date", name |-> <<"d","1">>, list |-> ""],
       [type |-> "select_multiple", name |-> <<"m","1">>, list |-> "tags"],
       [type |-> "select_one", name |-> <<"x","1">>, list |-> "shade"],
       [type |-> "select_multiple", name |-> <<"y","1">>, list |-> "shade"] >>
\* The index each route builds from DocSurvey.
CloneIndex == BuildIndex(EmptyIndex, "clone", DocSurvey, 1)
UpdateIndex == BuildIndex(EmptyIndex, "update", DocSurvey, 1)
DocIndex(operation) == IF operation = "clone" THEN CloneIndex ELSE UpdateIndex

\* ------------------------------------------------------------------ the field index
\* The index the request builds before the stream starts, for the survey
\* DocSurvey.  Columns and paths are named by short labels here; PathText
\* gives the text of each path.  The types and the constraints are those of
\* the index built from the survey (the two routes build the same ones).
valid_fields ==
    << [col |-> "q1", path |-> "g1/q1"], [col |-> "q2", path |-> "q2"],
       [col |-> "d1", path |-> "d1"], [col |-> "m1", path |-> "m1"],
       [col |-> "x1", path |-> "x1"], [col |-> "y1", path |-> "y1"] >>
PathText ==
    [p \in {"g1/q1", "q2", "d1", "m1", "x1", "y1"} |->
        IF p = "g1/q1" THEN <<"g","1","/","q","1">>
        ELSE IF p = "q2" THEN <<"q","2">>
        ELSE IF p = "d1" THEN <<"d","1">>
        ELSE IF p = "m1" THEN <<"m","1">>
        ELSE IF p = "x1" THEN <<"x","1">>
        ELSE <<"y","1">>]
field_types == [p \in DOMAIN PathText |-> CloneIndex.types[PathText[p]]]
field_constraints ==
    [p \in {q \in DOMAIN PathText : PathText[q] \in DOMAIN CloneIndex.constraints} |->
        CloneIndex.constraints[PathText[p]]]

InSeq(x, seq) == \E i \in 1..Len(seq) : seq[i] = x

\* The type branch of the loop body: [err |-> "", val |-> text] or
\* [err |-> message].  An integer is rewritten; a decimal and a date are
\* only tested (the text strftime returns is not assigned to str_val); any
\* other type passes through.
CoerceType(expected_type, str_val) ==
    IF expected_type = "integer"
    THEN IF IsFloatText(str_val) /\ IsWholeNumber(str_val)
         THEN [err |-> "", val |-> IntText(str_val)]
         ELSE [err |-> "expects a whole number", val |-> str_val]
    ELSE IF expected_type = "decimal" /\ ~IsFloatText(str_val)
    THEN [err |-> "expects a decimal number", val |-> str_val]
    ELSE IF expected_type = "date" /\ to_datetime(str_val) = NoDate
    THEN [err |-> "expects a date", val |-> str_val]
    ELSE [err |-> "", val |-> str_val]

\* Variant of CheckTokens: the value keeps the text of the cell.
CheckTokens_KeepsText(selected_items, allowed, str_val) ==
    IF \E i \in 1..Len(selected_items) : ~InSeq(selected_items[i], allowed)
    THEN [err |-> "is not a valid choice", val |-> str_val]
    ELSE [err |-> "", val |-> str_val]

\* select_multiple: every token must be allowed; the value becomes the tokens
\* joined by one space.
CheckTokens(selected_items, allowed, str_val) ==
    IF \E i \in 1..Len(selected_items) : ~InSeq(selected_items[i], allowed)
    THEN [err |-> "is not a valid choice", val |-> str_val]
    ELSE [err |-> "", val |-> JoinSpace(selected_items)]

\* The choice branch of the loop body, for a field that has a constraint.
CheckChoice(constraint, str_val) ==
    IF constraint.type = "select_one"
    THEN [err |-> IF InSeq(str_val, constraint.allowed) THEN "" ELSE "is not a valid choice",
          val |-> str_val]
    ELSE IF constraint.type = "select_multiple"
    THEN CheckTokens(Tokens(str_val), constraint.allowed, str_val)
    ELSE [err |-> "", val |-> str_val]

\* The choice branch applied to the result of the type branch.
CoerceChoice(path, typed) ==
    IF typed.err = "" /\ path \in DOMAIN field_constraints
    THEN CheckChoice(field_constraints[path], typed.val)
    ELSE typed

\* One cell of a row, coerced as the body of the loop over valid_fields does:
\* [err |-> "", val |-> text placed in data_payload] or [err |-> message].
CoerceCell(path, cell) ==
    CoerceChoice(path,
        CoerceType(IF path \in DOMAIN field_types THEN field_types[path] ELSE "text",
                   Strip(cell)))

\* data_payload[xml_path] = str_val
SetPayload(acc, path, val) ==
    [p \in (DOMAIN acc) \cup {path} |-> IF p = path THEN val ELSE acc[p]]

RECURSIVE BuildPayload(_, _, _)
\* One step of the loop over valid_fields, given the coerced cell c.
PayloadStep(row, i, acc, path, c) ==
    IF c.err # "" THEN [err |-> c.err, payload |-> acc]
    ELSE BuildPayload(row, i + 1, SetPayload(acc, path, c.val))

\* The loop "for csv_col, xml_path in valid_fields.items()" from field i on:
\* stops at the first cell that raises, skips missing cells.
BuildPayload(row, i, acc) ==
    IF i > Len(valid_fields) THEN [err |-> "", payload |-> acc]
    ELSE IF row[valid_fields[i].col] = NaN THEN BuildPayload(row, i + 1, acc)
    ELSE PayloadStep(row, i, acc, valid_fields[i].path,
                     CoerceCell(valid_fields[i].path, row[valid_fields[i].col]))

EmptyPayload == [p \in {} |-> <<>>]

\* row.get('_id'): the cell, or None when the table has no _id column.
RawId(row) == IF "_id" \in DOMAIN row THEN row["_id"] ELSE NaN

\* Variant of SubId: the text is trimmed before it is cut at the point.
SubId_StripFirst(row) == IF RawId(row) # NaN THEN SplitDot0(Strip(RawId(row))) ELSE <<>>

\* sub_id = str(raw_id).split('.')[0].strip() if pd.notna(raw_id) else ""
SubId(row) == IF RawId(row) # NaN THEN Strip(SplitDot0(RawId(row))) ELSE <<>>

\* raw_id_str of the except branch: no strip, "unknown" for a missing cell.
RawIdStr(row) ==
    IF RawId(row) # NaN THEN SplitDot0(RawId(row)) ELSE <<"u","n","k","n","o","w","n">>

EmptyWords == { <<"n","a","n">>, <<"n","u","l","l">>, <<"n","o","n","e">> }

\* Variant of CheckSubId: the form of the identifier is checked before the
\* identifier is tested for being empty.
CheckSubId_SchemaFirst(operation, existing, sub_id) ==
    IF validate_kobo_id(sub_id) # "ok"
    THEN [err |-> validate_kobo_id(sub_id), counter |-> "invalid"]
    ELSE IF sub_id = <<>> \/ Lower(sub_id) \in EmptyWords
    THEN [err |-> "ID is empty.", counter |-> "invalid"]
    ELSE IF operation = "clone" /\ sub_id \in existing
    THEN [err |-> "ID already exists in Kobo.", counter |-> "duplicate"]
    ELSE IF operation = "update" /\ sub_id \notin existing
    THEN [err |-> "ID was not found in Kobo.", counter |-> "not_found"]
    ELSE [err |-> "", counter |-> "none"]

\* Variant of CheckSubId: the identifier is never looked up in the snapshot.
CheckSubId_NoSnapshot(operation, existing, sub_id) ==
    IF sub_id = <<>> \/ Lower(sub_id) \in EmptyWords
    THEN [err |-> "ID is empty.", counter |-> "invalid"]
    ELSE IF validate_kobo_id(sub_id) # "ok"
    THEN [err |-> validate_kobo_id(sub_id), counter |-> "invalid"]
    ELSE [err |-> "", counter |-> "none"]

\* The identifier checks on the normalized identifier, in the order of the
\* code: [err |-> ""] or [err |-> message, counter |-> the counter incremented].
\* clone rejects an identifier that is in the snapshot; update one that is not.
CheckSubId(operation, existing, sub_id) ==
    IF sub_id = <<>> \/ Lower(sub_id) \in EmptyWords
    THEN [err |-> "ID is empty.", counter |-> "invalid"]
    ELSE IF validate_kobo_id(sub_id) # "ok"
    THEN [err |-> validate_kobo_id(sub_id), counter |-> "invalid"]
    ELSE IF operation = "clone" /\ sub_id \in existing
    THEN [err |-> "ID already exists in Kobo.", counter |-> "duplicate"]
    ELSE IF operation = "update" /\ sub_id \notin existing
    THEN [err |-> "ID was not found in Kobo.", counter |-> "not_found"]
    ELSE [err |-> "", counter |-> "none"]

\* clone runs the identifier checks only when the table has an _id column.
CheckId(operation, has_id, existing, row) ==
    IF operation = "clone" /\ ~has_id THEN [err |-> "", counter |-> "none"]
    ELSE CheckSubId(operation, existing, SubId(row))

\* Variant of RowResult: an empty payload is not told apart from a filled one.
RowResult_NoEmptyCheck(idc, pl) ==
    IF idc.err # ""
    THEN [kind |-> "error", err |-> idc.err, counter |-> idc.counter, payload |-> EmptyPayload]
    ELSE IF pl.err # ""
    THEN [kind |-> "error", err |-> pl.err, counter |-> "none", payload |-> EmptyPayload]
    ELSE [kind |-> "ok", err |-> "", counter |-> "none", payload |-> pl.payload]

\* The result of the try block from the identifier result and the payload
\* result: kind "error" is a raised ValueError, "nodata" the empty payload,
\* "ok" a row that leaves the try block with a payload.
RowResult(idc, pl) ==
    IF idc.err # ""
    THEN [kind |-> "error", err |-> idc.err, counter |-> idc.counter, payload |-> EmptyPayload]
    ELSE IF pl.err # ""
    THEN [kind |-> "error", err |-> pl.err, counter |-> "none", payload |-> EmptyPayload]
    ELSE IF DOMAIN pl.payload = {}
    THEN [kind |-> "nodata", err |-> "No matching Kobo fields found.",
          counter |-> "none", payload |-> EmptyPayload]
    ELSE [kind |-> "ok", err |-> "", counter |-> "none", payload |-> pl.payload]

\* The try block of one loop iteration: the identifier checks, then the payload.
ValidateRow(operation, has_id, existing, row) ==
    RowResult(CheckId(operation, has_id, existing, row),
              BuildPayload(row, 1, EmptyPayload))

\* ------------------------------------------------------------------ inputs
\* Identifier texts: Id1 and Id3 are records of the remote asset, Id2 is not.
Id1 == <<"1","2","3","4","5","6","7">>
Id2 == <<"7","6","5","4","3","2","1">>
Id3 == <<"2","2","2","2","2","2","2","2">>
ServerIds == {Id1, Id3}

\* The columns of the fields other than q1 and q2; they are blank in the
\* rows built by Row and RowNoId.
OtherColumns == {"d1", "m1", "x1", "y1"}
Row(id, q1, q2) ==
    [c \in {"_id", "q1", "q2"} \cup OtherColumns |->
        IF c = "_id" THEN id ELSE IF c = "q1" THEN q1 ELSE IF c = "q2" THEN q2 ELSE NaN]
RowNoId(q1, q2) ==
    [c \in {"q1", "q2"} \cup OtherColumns |->
        IF c = "q1" THEN q1 ELSE IF c = "q2" THEN q2 ELSE NaN]

\* Rows of a table with an _id column: rows that pass every check (one with
\* the identifier read as a float), and one row for each way a row is rejected.
SampleRows ==
    { Row(Id1 \o <<".","0">>, <<"1","0",".","0">>, <<"a">>),
      Row(Id3, <<"7">>, <<"b">>),
      Row(Id2, NaN, <<" ","b">>),
      Row(NaN, <<"1">>, <<"a">>),
      Row(<<"1","2","3","4","5">>, <<"1">>, <<"a">>),
      Row(Id3, <<"1",".","5">>, <<"a">>),
      Row(Id2, NaN, <<"z">>),
      Row(Id3, NaN, NaN) }

\* Rows of a table without an _id column (clone only).
SampleRowsNoId ==
    { RowNoId(<<"7">>, <<"a">>),
      RowNoId(<<"x">>, <<"a">>),
      RowNoId(NaN, <<"c">>),
      RowNoId(NaN, NaN) }

TablesOver(rows) == UNION { [1..n -> rows] : n \in 1..MaxRows }

\* Status codes the remote write answers with.
StatusCodes == {200, 202, 500}
\* What a remote call can do: answer with a status, or raise in the transport.
Responses == { [raised |-> FALSE, status |-> c] : c \in StatusCodes }
                 \cup { [raised |-> TRUE, status |-> 0] }

\* resp.status_code in [200, 201, 202] (clone), in [200, 201] (update)
SuccessStatuses(operation) == IF operation = "clone" THEN {200, 201, 202} ELSE {200, 201}

\* A request that passes KoboUpdateSchema.
GoodConfig ==
    [ token |-> [i \in 1..MinTokenLen |-> "t"], asset_id |-> <<"a","Q","3","x","9">> ]

\* The header of a table for DocSurvey that passes the column check: the
\* grouped field is named by its short name for clone, by its path for update.
HeaderOf(operation, has_id) ==
    (IF has_id THEN << <<"_","i","d">> >> ELSE <<>>)
       \o << IF operation = "clone" THEN <<"q","1">> ELSE <<"g","1","/","q","1">>, <<"q","2">>,
             <<"d","1">>, <<"m","1">>, <<"x","1">>, <<"y","1">> >>

\* ------------------------------------------------------------------ state
VARIABLES
    op,                      \* "clone" or "update": the route that was called
    is_confirmed,            \* form field is_confirmed
    skip_until,              \* form field skip_until
    df,                      \* the table read from the uploaded file
    existing_ids,            \* the snapshot of remote identifiers
    pc,                      \* where the generator stands
    idx,                     \* rows the loop has left behind
    processed_count, progress_count, success_count,
    invalid_id_count, duplicate_id_count, not_found_count,
    invalid_records_details,
    is_valid,                \* the loop's is_valid flag
    data_payload,            \* payload of the row being processed
    events,                  \* the NDJSON records handed to the consumer
    writes,                  \* the create / bulk-patch calls issued to the remote
    outcome,                 \* row number -> how the loop left the row
    raw_data,                \* form fields token and asset_id
    columns,                 \* df.columns: the header texts of the uploaded table
    survey,                  \* content.survey of the asset
    pos,                     \* survey items the index loop has left behind
    group_stack, path_map,   \* the index under construction
    types_map,               \* field_types as built from the survey
    constraints_map,         \* field_constraints as built from the survey
    response,                \* what the route returned: [status, kind]
    io                       \* the file read and the network calls of the route

vars == << op, is_confirmed, skip_until, df, existing_ids, pc, idx,
           processed_count, progress_count, success_count,
           invalid_id_count, duplicate_id_count, not_found_count,
           invalid_records_details, is_valid, data_payload, events, writes,
           outcome, raw_data, columns, survey, pos, group_stack, path_map,
           types_map, constraints_map, response, io >>

\* What the route has settled when generate() starts.
request == << raw_data, columns, survey, pos, group_stack, path_map,
             types_map, constraints_map, response, io >>
inputs == << op, is_confirmed, skip_until, df, request >>
counters == << success_count, invalid_id_count, duplicate_id_count, not_found_count >>

total_rows == Len(df)
has_id_column == "_id" \in DOMAIN df[1]

\* The state when the response starts to iterate generate(): the request was
\* accepted, so the table is not empty, update has an _id column, and every
\* column resolved in the field index.
Init ==
    /\ op \in {"clone", "update"}
    /\ is_confirmed \in BOOLEAN
    /\ skip_until \in 0..MaxSkip
    /\ df \in IF op = "clone" THEN TablesOver(SampleRows) \cup TablesOver(SampleRowsNoId)
                               ELSE TablesOver(SampleRows)
    /\ existing_ids = {}
    /\ pc = "start"
    /\ idx = 0
    /\ processed_count = 0
    /\ progress_count = 0
    /\ success_count = 0
    /\ invalid_id_count = 0
    /\ duplicate_id_count = 0
    /\ not_found_count = 0
    /\ invalid_records_details = <<>>
    /\ is_valid = FALSE
    /\ data_payload = EmptyPayload
    /\ events = <<>>
    /\ writes = <<>>
    /\ outcome = [n \in {} |-> ""]
    /\ raw_data = GoodConfig
    /\ columns = HeaderOf(op, "_id" \in DOMAIN df[1])
    /\ survey = DocSurvey
    /\ pos = Len(DocSurvey)
    /\ group_stack = DocIndex(op).group_stack
    /\ path_map = DocIndex(op).path_map
    /\ types_map = DocIndex(op).types
    /\ constraints_map = DocIndex(op).constraints
    /\ response = [status |-> 200, kind |-> "stream"]
    /\ io = << "read_csv", "get_asset" >>

\* ------------------------------------------------------------------ generate()
Yields == {"yield_progress", "yield_warning", "yield_nodata", "yield_success"}

Visit(n, how) == [m \in (DOMAIN outcome) \cup {n} |-> IF m = n THEN how ELSE outcome[m]]

\* Variant of FetchExisting: a read that fails ends the run.
FetchExisting_FatalOnFailure ==
    /\ pc = "start"
    /\ \E fetched \in BOOLEAN :
          /\ fetched => (op = "update" \/ has_id_column)
          /\ existing_ids' = IF ~fetched THEN {}
                              ELSE IF op = "clone" THEN {Strip(i) : i \in ServerIds}
                              ELSE ServerIds
          /\ pc' = IF fetched THEN "loop" ELSE "crashed"
    /\ UNCHANGED << inputs, idx, processed_count, progress_count, counters,
                    invalid_records_details, is_valid, data_payload, events, writes,
                    outcome >>

\* The one read of the identifier list (clone: at the top of generate, only
\* with an _id column; update: just before the stream is returned).  Any
\* exception and any status but 200 is suppressed and leaves the set empty.
FetchExisting ==
    /\ pc = "start"
    /\ \E fetched \in BOOLEAN :
          /\ fetched => (op = "update" \/ has_id_column)
          /\ existing_ids' = IF ~fetched THEN {}
                              ELSE IF op = "clone" THEN {Strip(i) : i \in ServerIds}
                              ELSE ServerIds
    /\ pc' = "loop"
    /\ UNCHANGED << inputs, idx, processed_count, progress_count, counters,
                    invalid_records_details, is_valid, data_payload, events, writes,
                    outcome >>

\* is_valid = (not is_confirmed and processed_count == total_rows)
IsValid(n) == ~is_confirmed /\ n = total_rows

\* Variant of Skipped: the cursor is applied in execution mode too.
Skipped_AnyMode(n) == n <= skip_until

\* if not is_confirmed and processed_count <= skip_until: continue
Skipped(n) == ~is_confirmed /\ n <= skip_until

\* Loop head, row at or before the cursor: continue.
SkipRow ==
    /\ pc = "loop" /\ idx < total_rows
    /\ Skipped(idx + 1)
    /\ processed_count' = idx + 1
    /\ is_valid' = IsValid(idx + 1)
    /\ idx' = idx + 1
    /\ outcome' = Visit(idx + 1, "skipped")
    /\ UNCHANGED << inputs, existing_ids, pc, progress_count, counters,
                    invalid_records_details, data_payload, events, writes >>

\* The record of a warning: current is the row number.
Warning(n, id, msg) ==
    [status |-> "warning", current |-> n, total |-> total_rows,
     is_validation_complete |-> IsValid(n), message |-> [id |-> id, msg |-> msg]]

\* Variant of Progress: current is the number of the row.
Progress_RowNumber(n, count) ==
    [status |-> "progress", total |-> total_rows, current |-> n,
     is_validation_complete |-> IsValid(n)]

\* The record of a progress step: current is the count of progress records.
Progress(n, count) ==
    [status |-> "progress", total |-> total_rows, current |-> count,
     is_validation_complete |-> IsValid(n)]

\* Variant of Reject: preview mode does not break after the warning.
Reject_NoBreak(n, r) ==
    /\ r.kind = "error"
    /\ processed_count' = n
    /\ is_valid' = IsValid(n)
    /\ invalid_id_count' = invalid_id_count + (IF r.counter = "invalid" THEN 1 ELSE 0)
    /\ duplicate_id_count' = duplicate_id_count + (IF r.counter = "duplicate" THEN 1 ELSE 0)
    /\ not_found_count' = not_found_count + (IF r.counter = "not_found" THEN 1 ELSE 0)
    /\ outcome' = Visit(n, "error")
    /\ invalid_records_details' =
           Append(invalid_records_details,
                  [fmt |-> "ID", id |-> RawIdStr(df[n]), msg |-> r.err])
    /\ events' = IF is_confirmed THEN events
                  ELSE Append(events, Warning(n, RawIdStr(df[n]), r.err))
    /\ pc' = "loop"
    /\ idx' = n

\* The except branch for row n with result r.
Reject(n, r) ==
    /\ r.kind = "error"
    /\ processed_count' = n
    /\ is_valid' = IsValid(n)
    /\ invalid_id_count' = invalid_id_count + (IF r.counter = "invalid" THEN 1 ELSE 0)
    /\ duplicate_id_count' = duplicate_id_count + (IF r.counter = "duplicate" THEN 1 ELSE 0)
    /\ not_found_count' = not_found_count + (IF r.counter = "not_found" THEN 1 ELSE 0)
    /\ outcome' = Visit(n, "error")
    /\ IF ~is_confirmed
       THEN /\ invalid_records_details' =
                  Append(Append(invalid_records_details,
                                [fmt |-> "ID", id |-> RawIdStr(df[n]), msg |-> r.err]),
                         [fmt |-> "plain", id |-> <<>>, msg |-> r.err])
            /\ events' = Append(events, Warning(n, RawIdStr(df[n]), r.err))
            /\ pc' = "yield_warning"
            /\ idx' = idx
       ELSE /\ invalid_records_details' =
                  Append(invalid_records_details,
                         [fmt |-> "ID", id |-> RawIdStr(df[n]), msg |-> r.err])
            /\ events' = events
            /\ pc' = "loop"
            /\ idx' = n

\* A row whose try block raises ValueError: count it, record the message;
\* preview yields a warning and breaks, execution continues with the next row.
RejectRow ==
    /\ pc = "loop" /\ idx < total_rows
    /\ ~Skipped(idx + 1)
    /\ Reject(idx + 1, ValidateRow(op, has_id_column, existing_ids, df[idx + 1]))
    /\ UNCHANGED << inputs, existing_ids, progress_count, success_count,
                    data_payload, writes >>

\* The empty-payload branch for row n with result r.
NoData(n, r) ==
    /\ r.kind = "nodata"
    /\ processed_count' = n
    /\ is_valid' = IsValid(n)
    /\ data_payload' = r.payload
    /\ outcome' = Visit(n, "nodata")
    /\ events' = Append(events, Warning(n, <<>>, r.err))
    /\ pc' = "yield_nodata"

\* A row that passes every check but whose payload is empty: one warning,
\* then the generator returns.
NoDataRow ==
    /\ pc = "loop" /\ idx < total_rows
    /\ ~Skipped(idx + 1)
    /\ NoData(idx + 1, ValidateRow(op, has_id_column, existing_ids, df[idx + 1]))
    /\ UNCHANGED << inputs, existing_ids, idx, progress_count, counters,
                    invalid_records_details, writes >>

\* The path of row n with result r past the try block, up to the yield of
\* the progress record.
Accept(n, r) ==
    /\ r.kind = "ok"
    /\ processed_count' = n
    /\ is_valid' = IsValid(n)
    /\ data_payload' = r.payload
    /\ outcome' = Visit(n, "ok")
    /\ IF is_confirmed \/ IsValid(n)
       THEN /\ progress_count' = progress_count + 1
            /\ events' = Append(events, Progress(n, progress_count + 1))
            /\ pc' = "yield_progress"
            /\ idx' = idx
       ELSE /\ progress_count' = progress_count
            /\ events' = events
            /\ pc' = "loop"
            /\ idx' = n

\* A row that leaves the try block with a payload.  In execution mode, and
\* in preview mode on the last row, a progress record is yielded.
AcceptRow ==
    /\ pc = "loop" /\ idx < total_rows
    /\ ~Skipped(idx + 1)
    /\ Accept(idx + 1, ValidateRow(op, has_id_column, existing_ids, df[idx + 1]))
    /\ UNCHANGED << inputs, existing_ids, counters, invalid_records_details, writes >>

\* Variant of WriteCall: the patch addresses the identifier of the first row.
WriteCall_StaleId(n, resp) ==
    [ row |-> n,
      kind |-> IF op = "clone" THEN "create" ELSE "patch",
      submission_ids |-> IF op = "clone" THEN <<>> ELSE <<IntOf(SubId(df[1]))>>,
      data |-> data_payload,
      raised |-> resp.raised,
      status |-> resp.status ]

\* The remote call of the row just reported, as the remote sees it.  clone
\* posts one submission; update patches submission_ids = [int(float(sub_id))].
WriteCall(n, resp) ==
    [ row |-> n,
      kind |-> IF op = "clone" THEN "create" ELSE "patch",
      submission_ids |-> IF op = "clone" THEN <<>> ELSE <<IntOf(SubId(df[n]))>>,
      data |-> data_payload,
      raised |-> resp.raised,
      status |-> resp.status ]

\* The counter of committed writes after a response.
Committed(count, resp) ==
    IF resp.status \in SuccessStatuses(op) THEN count + 1 ELSE count

\* Variant of AfterWrite: a status outside the success range ends the run.
AfterWrite_AbortOnFailure(resp) ==
    IF resp.raised \/ resp.status \notin SuccessStatuses(op) THEN "crashed" ELSE "loop"

\* Where the generator goes after the remote call: a transport exception is
\* not caught inside generate() and ends it; any response goes on to the
\* next row.
AfterWrite(resp) == IF resp.raised THEN "crashed" ELSE "loop"

\* Variant of SubmitRow: the identifier just written is added to the snapshot.
SubmitRow_Refreshes ==
    /\ pc = "yield_progress" /\ is_confirmed
    /\ \E resp \in Responses :
          /\ writes' = Append(writes, WriteCall(processed_count, resp))
          /\ pc' = AfterWrite(resp)
          /\ success_count' = IF resp.raised THEN success_count
                                              ELSE Committed(success_count, resp)
          /\ idx' = IF AfterWrite(resp) = "loop" THEN idx + 1 ELSE idx
    /\ existing_ids' = existing_ids \cup {SubId(df[processed_count])}
    /\ UNCHANGED << inputs, processed_count, progress_count,
                    invalid_id_count, duplicate_id_count, not_found_count,
                    invalid_records_details, is_valid, data_payload, events, outcome >>

\* Execution mode, resumed after the progress record: the remote write.
SubmitRow ==
    /\ pc = "yield_progress" /\ is_confirmed
    /\ \E resp \in Responses :
          /\ writes' = Append(writes, WriteCall(processed_count, resp))
          /\ pc' = AfterWrite(resp)
          /\ success_count' = IF resp.raised THEN success_count
                                              ELSE Committed(success_count, resp)
          /\ idx' = IF AfterWrite(resp) = "loop" THEN idx + 1 ELSE idx
    /\ UNCHANGED << inputs, existing_ids, processed_count, progress_count,
                    invalid_id_count, duplicate_id_count, not_found_count,
                    invalid_records_details, is_valid, data_payload, events, outcome >>

\* Variant of ResumePreview: the write is not guarded by is_confirmed.
ResumePreview_Writes ==
    /\ pc = "yield_progress" /\ ~is_confirmed
    /\ writes' = Append(writes, WriteCall(processed_count, [raised |-> FALSE, status |-> 200]))
    /\ idx' = idx + 1
    /\ pc' = "loop"
    /\ UNCHANGED << inputs, existing_ids, processed_count, progress_count, counters,
                    invalid_records_details, is_valid, data_payload, events, outcome >>

\* Preview mode, resumed after the progress record of the last row: no write.
ResumePreview ==
    /\ pc = "yield_progress" /\ ~is_confirmed
    /\ idx' = idx + 1
    /\ pc' = "loop"
    /\ UNCHANGED << inputs, existing_ids, processed_count, progress_count, counters,
                    invalid_records_details, is_valid, data_payload, events, writes,
                    outcome >>

\* After the loop (exhausted, or left by the break of preview mode): the
\* terminal record with the counts and the accumulated messages.
EmitSuccess ==
    /\ (pc = "loop" /\ idx = total_rows) \/ pc = "yield_warning"
    /\ events' = Append(events,
          [status |-> "success",
           message |-> [synced |-> success_count,
                        skipped |-> IF op = "clone" THEN duplicate_id_count
                                                    ELSE not_found_count,
                        invalid |-> invalid_id_count],
           err_detail |-> invalid_records_details])
    /\ pc' = "yield_success"
    /\ UNCHANGED << inputs, existing_ids, idx, processed_count, progress_count, counters,
                    invalid_records_details, is_valid, data_payload, writes, outcome >>

\* The generator ends: after the terminal record, or by the return that
\* follows the warning of an empty payload.
Finish ==
    /\ pc \in {"yield_success", "yield_nodata"}
    /\ pc' = "done"
    /\ UNCHANGED << inputs, existing_ids, idx, processed_count, progress_count, counters,
                    invalid_records_details, is_valid, data_payload, events, writes,
                    outcome >>

\* Variant of Cancel: closing the stream takes back the writes already made.
Cancel_RollsBack ==
    /\ pc \in Yields
    /\ pc' = "cancelled"
    /\ writes' = <<>>
    /\ UNCHANGED << inputs, existing_ids, idx, processed_count, progress_count, counters,
                    invalid_records_details, is_valid, data_payload, events, outcome >>

\* The consumer stops reading: the generator is closed at the yield it is
\* suspended at.
Cancel ==
    /\ pc \in Yields
    /\ pc' = "cancelled"
    /\ UNCHANGED << inputs, existing_ids, idx, processed_count, progress_count, counters,
                    invalid_records_details, is_valid, data_payload, events, writes,
                    outcome >>

Next ==
    \/ FetchExisting
    \/ SkipRow
    \/ RejectRow
    \/ NoDataRow
    \/ AcceptRow
    \/ SubmitRow
    \/ ResumePreview
    \/ EmitSuccess
    \/ Finish
    \/ Cancel

Spec == Init /\ [][Next]_vars

\* ------------------------------------------------------------------ clone() / update()
\* The route before the stream: pc runs through "config", "csv", "schema"
\* and "index"; it ends at "responded" when the route returns a JSON error,
\* and at "start" when it returns the streaming response.  skip_until is
\* taken to be a number, so int() does not raise.

\* What generate() works on: untouched while the route prepares the stream.
stream == << existing_ids, idx, processed_count, progress_count, counters,
            invalid_records_details, is_valid, data_payload, events, writes, outcome >>
form == << op, is_confirmed, skip_until, df, raw_data, columns, survey >>
index == << pos, group_stack, path_map, types_map, constraints_map >>

\* pd.read_csv raised (no file, not a table).
Unreadable == << <<"<unreadable>">> >>

\* return jsonify({"status": "error", ...}), status
Respond(status, kind) ==
    /\ response' = [status |-> status, kind |-> kind]
    /\ pc' = "responded"

\* config = KoboUpdateSchema(**raw_data); a validation error is caught by
\* the except clause of the route.
ValidateConfig ==
    /\ pc = "config"
    /\ IF KoboUpdateSchema(raw_data)
       THEN pc' = "csv" /\ UNCHANGED response
       ELSE Respond(500, "exception")
    /\ UNCHANGED << form, index, io, stream >>

\* The table is read: unreadable and empty tables are refused, and update
\* refuses a table without a column named exactly _id.
ReadCsv ==
    /\ pc = "csv"
    /\ io' = Append(io, "read_csv")
    /\ IF columns = Unreadable THEN Respond(400, "csv_read")
       ELSE IF Len(df) = 0 THEN Respond(400, "csv_empty")
       ELSE IF op = "update" /\ ~InSeq(<<"_","i","d">>, columns) THEN Respond(400, "csv_no_id")
       ELSE pc' = "schema" /\ UNCHANGED response
    /\ UNCHANGED << form, index, stream >>

\* What the GET of the asset can do: answer 200 with the content, answer
\* 401 or 404, fail to connect, or raise another transport error.
SchemaAnswers == {"200", "401", "404", "ConnectError", "Timeout"}

\* auth_resp = client.get(verify_url)
FetchSchema ==
    /\ pc = "schema"
    /\ io' = Append(io, "get_asset")
    /\ \E answer \in SchemaAnswers :
          IF answer = "401" THEN Respond(401, "token")
          ELSE IF answer = "404" THEN Respond(404, "asset")
          ELSE IF answer = "ConnectError" THEN Respond(400, "connect")
          ELSE IF answer = "Timeout" THEN Respond(500, "exception")
          ELSE pc' = "index" /\ UNCHANGED response
    /\ UNCHANGED << form, index, stream >>

\* The index as the record IndexItem works on.
IndexNow ==
    [ group_stack |-> group_stack, path_map |-> path_map,
      types |-> types_map, constraints |-> constraints_map ]

\* The variables take the index ix.
SetIndex(ix) ==
    /\ group_stack' = ix.group_stack
    /\ path_map' = ix.path_map
    /\ types_map' = ix.types
    /\ constraints_map' = ix.constraints

\* The index is ix.
SetIndexTo(ix) ==
    /\ group_stack = ix.group_stack
    /\ path_map = ix.path_map
    /\ types_map = ix.types
    /\ constraints_map = ix.constraints

\* One iteration of "for item in survey".
IndexStep ==
    /\ pc = "index" /\ pos < Len(survey)
    /\ SetIndex(IndexItem(IndexNow, op, survey[pos + 1]))
    /\ pos' = pos + 1
    /\ UNCHANGED << pc, form, response, io, stream >>

\* After the loop: the column check, then the streaming response.
CheckColumns ==
    /\ pc = "index" /\ pos = Len(survey)
    /\ IF invalid_cols(columns, path_map) # <<>>
       THEN Respond(400, "mismatch")
       ELSE pc' = "start" /\ response' = [status |-> 200, kind |-> "stream"]
    /\ UNCHANGED << form, index, io, stream >>

NextRequest ==
    \/ ValidateConfig
    \/ ReadCsv
    \/ FetchSchema
    \/ IndexStep
    \/ CheckColumns

\* Form fields the caller may send.
TokenSamples ==
    { None, <<>>, [i \in 1..(MinTokenLen - 1) |-> "t"], [i \in 1..MinTokenLen |-> "t"] }
AssetSamples ==
    { None, <<"a","b","c","d">>, <<"a","b","c","d","e">>, <<"a","B","3","x","9","Z">>, <<"a","b","-","d","e">>, <<"a","b"," ","d","e">>, <<"a","b","c","d","\n">>, <<"a","b","c","d","e","\n">> }

\* Header lines of uploaded tables.
HeaderSamples ==
    { << <<"_","i","d">>, <<"q","1">>, <<"q","2">> >>,
      << <<"_","i","d">>, <<"g","1","/","q","1">>, <<"q","2">> >>,
      << <<" ","_","I","D"," ">>, <<"G","1","/","Q","1"," ">>, <<"U","s","e","r","n","a","m","e">>, <<"s","t","a","r","t">> >>,
      << <<"q","1">>, <<"q","2">> >>,
      << <<"_","i","d">>, <<"q","1">>, <<"a","g","e">> >>,
      << <<"_","i","d">>, <<"_","u","u","i","d">>, <<"q","2">> >>,
      << <<"_","i","d">> >> }

\* A second survey: a question outside any group and one nested in a group.
FlatSurvey ==
    << [type |-> "text", name |-> <<"q","2">>, list |-> ""],
       [type |-> "begin_group", name |-> <<"g","1">>, list |-> ""],
       [type |-> "integer", name |-> <<"q","1">>, list |-> ""] >>

OneRow == << Row(Id1, <<"7">>, <<"a">>) >>

\* The pipeline before the route has built it.
StreamIdle ==
    /\ existing_ids = {}
    /\ idx = 0 /\ processed_count = 0 /\ progress_count = 0 /\ success_count = 0
    /\ invalid_id_count = 0 /\ duplicate_id_count = 0 /\ not_found_count = 0
    /\ invalid_records_details = <<>>
    /\ is_valid = FALSE
    /\ data_payload = EmptyPayload
    /\ events = <<>>
    /\ writes = <<>>
    /\ outcome = [n \in {} |-> ""]

\* The index before the loop over the survey.
IndexIdle ==
    /\ pos = 0
    /\ group_stack = EmptyIndex.group_stack
    /\ path_map = EmptyIndex.path_map
    /\ types_map = EmptyIndex.types
    /\ constraints_map = EmptyIndex.constraints

\* A request arrives at one of the two routes.
InitRequest ==
    /\ op \in {"clone", "update"}
    /\ is_confirmed \in BOOLEAN
    /\ skip_until = 0
    /\ raw_data \in [token : TokenSamples, asset_id : AssetSamples]
    /\ columns \in HeaderSamples \cup {Unreadable}
    /\ df \in IF columns = Unreadable THEN { <<>> } ELSE { <<>>, OneRow }
    /\ survey \in {DocSurvey, FlatSurvey, <<>>}
    /\ pc = "config"
    /\ response = [status |-> 0, kind |-> "none"]
    /\ io = <<>>
    /\ IndexIdle
    /\ StreamIdle

SpecRequest == InitRequest /\ [][NextRequest]_vars

\* ------------------------------------------------------------------ the index loop alone
\* The items a survey is made of here: two groups, the end of a group, an
\* integer and a select_one question, and a note.
ItemAlphabet ==
    { [type |-> "begin_group", name |-> <<"g","1">>, list |-> ""],
      [type |-> "begin_group", name |-> <<"G","2">>, list |-> ""],
      [type |-> "end_group", name |-> NoName, list |-> ""],
      [type |-> "integer", name |-> <<"q","1">>, list |-> ""],
      [type |-> "select_one", name |-> <<"Q","2">>, list |-> "colour"],
      [type |-> "note", name |-> <<"n","1">>, list |-> ""] }

SurveysUpTo(n) == UNION { [1..k -> ItemAlphabet] : k \in 0..n }

\* The route after the asset was fetched, for every survey of at most
\* MaxSurvey items, balanced or not.
InitIndex ==
    /\ op \in {"clone", "update"}
    /\ is_confirmed = FALSE
    /\ skip_until = 0
    /\ raw_data = GoodConfig
    /\ columns \in { << <<"_","i","d">>, <<"q","1">> >>, << <<"_","i","d">>, <<"g","1","/","q","1">> >> }
    /\ df = OneRow
    /\ survey \in SurveysUpTo(MaxSurvey)
    /\ pc = "index"
    /\ response = [status |-> 0, kind |-> "none"]
    /\ io = << "read_csv", "get_asset" >>
    /\ IndexIdle
    /\ StreamIdle

NextIndex ==
    \/ IndexStep
    \/ CheckColumns

SpecIndex == InitIndex /\ [][NextIndex]_vars

\* ------------------------------------------------------------------ the pipeline over identifier cells
\* Identifier cells: a missing cell, the words read as empty, and texts made
\* of a head and of at most MaxIdTail characters out of a digit, the point,
\* the space and a letter.  The head 123456 followed by 7 is Id1.
IdChars == {"7", ".", " ", "x"}
IdTails == UNION { [1..k -> IdChars] : k \in 0..MaxIdTail }
IdHeads == { <<>>, <<"1","2","3","4","5","6">>, <<" ","1","2","3","4","5","6">> }
IdCells ==
    { NaN, <<"n","a","n">>, <<"N","U","L","L">>, <<" ","N","o","n","e"," ">>, <<"n","a","n",".","7">> }
        \cup { h \o t : h \in IdHeads, t \in IdTails }

\* One-row tables: the cell with a row that has data and with a row that has none.
IdTables ==
    { << Row(c, <<"7">>, <<"a">>) >> : c \in IdCells }
        \cup { << Row(c, NaN, NaN) >> : c \in IdCells }

\* generate() starts on a one-row table, for every identifier cell.
InitIds ==
    /\ op \in {"clone", "update"}
    /\ is_confirmed \in BOOLEAN
    /\ skip_until \in 0..MaxSkip
    /\ df \in IdTables
    /\ pc = "start"
    /\ StreamIdle
    /\ raw_data = GoodConfig
    /\ columns = HeaderOf(op, TRUE)
    /\ survey = DocSurvey
    /\ pos = Len(DocSurvey)
    /\ SetIndexTo(DocIndex(op))
    /\ response = [status |-> 200, kind |-> "stream"]
    /\ io = << "read_csv", "get_asset" >>

SpecIds == InitIds /\ [][Next]_vars

\* ------------------------------------------------------------------ the pipeline over date and choice cells
\* Cells of the date column d1: two layouts of the same day, a day the
\* calendar does not have, and a word.
DateCells == { NaN, <<"2","0","2","4","-","0","1","-","0","5">>, <<"2","0","2","4","/","0","1","/","0","5">>, <<"2","0","2","4","-","0","2","-","3","0">>, <<"a","b","c">> }

\* Cells of the select_multiple column m1, whose list "tags" holds a, b and c.
MultiCells ==
    { NaN, <<"a",","," ","b"," ","c">>, <<"a">>, <<" ","b"," "," ","a"," ">>, <<"c",",",",","a">>, <<",">>, <<"a",",","d">>, <<"d">> }

\* Cells of the columns x1 (select_one) and y1 (select_multiple), whose list
\* "shade" is not among the choice lists.
AbsentOneCells == { NaN, <<"a">>, <<",">> }
AbsentMultiCells == { NaN, <<"a">>, <<"a"," ","b">>, <<",">> }

CellsOf(col) ==
    IF col = "d1" THEN DateCells
    ELSE IF col = "m1" THEN MultiCells
    ELSE IF col = "x1" THEN AbsentOneCells
    ELSE AbsentMultiCells

\* A row with one cell in column col and no other data.
CellRow(id, col, cell) == [Row(id, NaN, NaN) EXCEPT ![col] = cell]

\* One-row tables: each cell of each column, under an identifier that the
\* server holds (Id1) and under one that it does not (Id2).
CellTables ==
    UNION { { << CellRow(id, col, cell) >> : id \in {Id1, Id2}, cell \in CellsOf(col) } :
            col \in OtherColumns }

\* generate() starts on a one-row table, for every date and choice cell.
InitCells ==
    /\ op \in {"clone", "update"}
    /\ is_confirmed \in BOOLEAN
    /\ skip_until \in 0..MaxSkip
    /\ df \in CellTables
    /\ pc = "start"
    /\ StreamIdle
    /\ raw_data = GoodConfig
    /\ columns = HeaderOf(op, TRUE)
    /\ survey = DocSurvey
    /\ pos = Len(DocSurvey)
    /\ SetIndexTo(DocIndex(op))
    /\ response = [status |-> 200, kind |-> "stream"]
    /\ io = << "read_csv", "get_asset" >>

SpecCells == InitCells /\ [][Next]_vars

\* ------------------------------------------------------------------ properties
Ended == {"yield_success", "done"}
EventsOf(kind) == {i \in 1..Len(events) : events[i].status = kind}
WritesOf(n) == {i \in 1..Len(writes) : writes[i].row = n}
Rejections == {"error", "nodata"}

\* C1: a run over a non-empty table that the consumer does not cancel ends
\* with a stream that holds exactly one success record, and that record is
\* the last one, whatever the rows and the write outcomes are.
C1_OneTerminalSuccess ==
    pc \in {"done", "crashed"} =>
        /\ Cardinality(EventsOf("success")) = 1
        /\ events[Len(events)].status = "success"

\* C2: in preview mode (is_confirmed false) no create and no bulk-patch call
\* is ever issued.
C2_PreviewNeverWrites == ~is_confirmed => Len(writes) = 0

\* C2 witness: a preview run validated an acceptable last row and reported it.
C2_Witness ==
    /\ ~is_confirmed /\ pc = "done" /\ total_rows >= 2
    /\ Cardinality(EventsOf("progress")) = 1
    /\ \A n \in 1..total_rows : n \in DOMAIN outcome /\ outcome[n] = "ok"

\* The first row after the cursor that validation rejects, 0 when there is none.
FirstRejected ==
    LET bad == {n \in (skip_until + 1)..total_rows :
                   ValidateRow(op, has_id_column, existing_ids, df[n]).kind # "ok"}
    IN  IF bad = {} THEN 0 ELSE CHOOSE n \in bad : \A m \in bad : n <= m

\* C3: in preview mode, when row k is the first row after the cursor that
\* validation rejects, the stream holds exactly one warning, it is the one of
\* row k, no row after k is visited, and nothing is written.
C3_PreviewHaltsAtFirstRejection ==
    (~is_confirmed /\ pc # "start") =>
        LET k == FirstRejected
        IN  /\ Len(writes) = 0
            /\ Cardinality(EventsOf("warning")) <= 1
            /\ \A i \in EventsOf("warning") : k # 0 /\ events[i].current = k
            /\ k # 0 =>
                   /\ \A n \in DOMAIN outcome : n <= k
                   /\ pc \in Ended \cup {"yield_warning", "yield_nodata", "cancelled"}
                          => Cardinality(EventsOf("warning")) = 1

\* C3 witness: a three-row preview whose second row has a malformed
\* identifier ended after the one warning for row 2.
C3_Witness ==
    /\ ~is_confirmed /\ pc = "done" /\ total_rows = 3 /\ skip_until = 0
    /\ FirstRejected = 2
    /\ outcome[1] = "ok" /\ outcome[2] = "error"
    /\ validate_kobo_id(SubId(df[2])) # "ok"
    /\ Cardinality(EventsOf("warning")) = 1

\* Some record handed to the consumer carries is_validation_complete = true.
ReportedComplete ==
    \E i \in 1..Len(events) :
        events[i].status \in {"progress", "warning"} /\ events[i].is_validation_complete

\* C4: in preview mode with a cursor below the row count, a record with
\* is_validation_complete = true is emitted if and only if every row from the
\* cursor to the last row was validated without rejection.
C4_CompleteIffNoRejection ==
    (~is_confirmed /\ skip_until < total_rows /\ pc \in Ended) =>
        (ReportedComplete <=> \A n \in (skip_until + 1)..total_rows :
                                  n \in DOMAIN outcome /\ outcome[n] = "ok")

Resolved(n) == n <= idx \/ (n = processed_count /\ pc \in {"crashed"} \cup Ended)

\* C6: in execution mode a validator rejection of any kind never stops the
\* run: once the run is over, every row of the table was validated and every
\* accepted row was submitted.
C6_RejectionNeverStops ==
    (is_confirmed /\ pc = "done" /\ \E n \in DOMAIN outcome : outcome[n] \in Rejections) =>
        \A m \in 1..total_rows :
            /\ m \in DOMAIN outcome
            /\ outcome[m] = "ok" => WritesOf(m) # {}

\* C7: in execution mode a transport-level exception of a remote write does
\* not abort the run: the generator goes on and the stream ends with the
\* success record.
C7_TransportFailureNotFatal ==
    (is_confirmed /\ \E i \in 1..Len(writes) : writes[i].raised) =>
        /\ pc # "crashed"
        /\ pc = "done" => events[Len(events)].status = "success"

\* The writes the remote answered with a status outside the success range.
RemoteFailures ==
    {i \in 1..Len(writes) :
        ~writes[i].raised /\ writes[i].status \notin SuccessStatuses(op)}

\* C8: in execution mode a remote response outside the success range does
\* not count as committed (the counter equals the number of responses in the
\* success range), does not abort the run (the loop moves past that row), and
\* every accepted row the loop resolves after it is still written.
C8_RemoteFailureNotFatal ==
    is_confirmed =>
        /\ success_count =
               Cardinality({i \in 1..Len(writes) :
                               ~writes[i].raised /\ writes[i].status \in SuccessStatuses(op)})
        /\ \A i \in RemoteFailures :
               /\ idx >= writes[i].row
               /\ i = Len(writes) => pc # "crashed"
               /\ \A m \in DOMAIN outcome :
                      (m > writes[i].row /\ outcome[m] = "ok" /\ Resolved(m))
                          => WritesOf(m) # {}

\* C8 witness: the write of row 1 was answered 500, the counter did not
\* move for it, and rows 2 and 3 were written afterwards.
C8_Witness ==
    /\ is_confirmed /\ pc = "done" /\ total_rows = 3
    /\ Len(writes) = 3
    /\ writes[1].row = 1 /\ writes[1].status = 500
    /\ writes[2].row = 2 /\ writes[3].row = 3
    /\ success_count = 2

\* C9: in execution mode the consumer holds the progress record of a row
\* only after the remote write of that row was issued and completed.
C9_ProgressAfterWrite ==
    (is_confirmed /\ pc = "yield_progress") => WritesOf(processed_count) # {}

\* C10: in execution mode a row causes a remote call only if it was accepted,
\* never more than one, and exactly one once the loop has resolved the row; a
\* rejected or skipped row causes none.  clone issues creates; update issues
\* bulk patches whose submission_ids hold exactly one identifier, the
\* normalized identifier of the row.
C10_OneWritePerAcceptedRow ==
    is_confirmed =>
        /\ \A i \in 1..Len(writes) :
               /\ writes[i].row \in DOMAIN outcome
               /\ outcome[writes[i].row] = "ok"
               /\ \A j \in 1..Len(writes) : writes[j].row = writes[i].row => j = i
               /\ op = "clone" => writes[i].kind = "create"
               /\ op = "update" =>
                      /\ writes[i].kind = "patch"
                      /\ Len(writes[i].submission_ids) = 1
                      /\ writes[i].submission_ids[1] =
                             IntOf(Strip(SplitDot0(df[writes[i].row]["_id"])))
        /\ \A n \in DOMAIN outcome :
               (outcome[n] = "ok" /\ Resolved(n)) => Cardinality(WritesOf(n)) = 1

\* C10 witness: an update run patched row 1, whose identifier cell reads
\* "1234567.0", and row 3, and issued nothing for the rejected row 2.
C10_Witness ==
    /\ is_confirmed /\ op = "update" /\ pc = "done" /\ total_rows = 3
    /\ outcome[1] = "ok" /\ outcome[2] = "error" /\ outcome[3] = "ok"
    /\ df[1]["_id"] = Id1 \o <<".", "0">>
    /\ Len(writes) = 2
    /\ writes[1].submission_ids = <<1234567>>
    /\ writes[2].submission_ids = <<22222222>>

\* The rows the loop validated (reached a row result for).
Validated == {n \in DOMAIN outcome : outcome[n] # "skipped"}

\* The normalized identifier of each sample row, and whether it has the form
\* of an identifier.
SampleSubId == [r \in SampleRows \cup SampleRowsNoId |-> SubId(r)]
SampleWellFormed ==
    [r \in SampleRows \cup SampleRowsNoId |-> validate_kobo_id(SubId(r)) = "ok"]

\* The row's normalized identifier has the form of an identifier.
WellFormedId(n) == SampleWellFormed[df[n]]

\* What the snapshot says of the identifier sid: update needs it in the
\* snapshot, clone on a table with an _id column needs it absent.
SnapshotAllows(sid) ==
    /\ op = "update" => sid \in existing_ids
    /\ (op = "clone" /\ has_id_column) => sid \notin existing_ids

\* C11: update never issues a bulk-patch for an identifier that is absent
\* from the snapshot, and the row is rejected as not found; clone on a table
\* with an _id column never issues a create for a row whose identifier is in
\* the snapshot, and the row is rejected as a duplicate.
C11_WritesGatedBySnapshot ==
    /\ \A i \in 1..Len(writes) : SnapshotAllows(SampleSubId[df[writes[i].row]])
    /\ \A n \in Validated : outcome[n] # "error" => SnapshotAllows(SampleSubId[df[n]])
    /\ (IF op = "update" THEN not_found_count ELSE duplicate_id_count) = 0 =>
          \A n \in Validated : WellFormedId(n) => SnapshotAllows(SampleSubId[df[n]])

\* An execution run over a fetched snapshot that rejected a row on the
\* snapshot and wrote another row.
C11_Witness ==
    /\ is_confirmed /\ existing_ids = ServerIds /\ Len(writes) >= 1
    /\ \E n \in Validated :
          /\ outcome[n] = "error" /\ WellFormedId(n)
          /\ (SubId(df[n]) \in existing_ids) = (op = "clone")
          /\ not_found_count + duplicate_id_count >= 1

\* C12: the snapshot of remote identifiers is read at most once per run, by
\* the step that starts the run, and no validation or write of a row changes
\* it: after the read it keeps its value, so the membership test of a row
\* does not depend on the writes made for earlier rows.
C12_SnapshotFrozen ==
    [][ /\ (existing_ids' # existing_ids) => (pc = "start" /\ pc' # "start")
        /\ (pc # "start") => (pc' # "start" /\ existing_ids' = existing_ids) ]_vars

\* A clone run that created two rows with the same identifier: the second
\* row was tested against the snapshot as it was read.
C12_Witness ==
    /\ op = "clone" /\ has_id_column /\ existing_ids = ServerIds
    /\ \E i, j \in 1..Len(writes) :
          /\ writes[i].row < writes[j].row
          /\ SubId(df[writes[i].row]) = SubId(df[writes[j].row])
          /\ writes[i].status \in SuccessStatuses(op)
          /\ SubId(df[writes[j].row]) \notin existing_ids

\* Every cell of the row under a mapped column is missing.
AllBlank(row) == \A i \in 1..Len(valid_fields) : row[valid_fields[i].col] = NaN

\* How the loop leaves a row without mapped data, given its identifier result.
BlankOutcome(idc) == IF idc.err = "" THEN "nodata" ELSE "error"

\* C15: in clone and in update, in preview and in execution, a row whose
\* mapped cells are all blank and that passes the identifier checks is
\* reported as a row without mapped data, and no row whose mapped cells are
\* all blank is ever written: no write carries an empty payload.
C15_BlankRowNeverWritten ==
    /\ \A n \in Validated :
          AllBlank(df[n]) =>
             /\ WritesOf(n) = {}
             /\ outcome[n] = BlankOutcome(CheckId(op, has_id_column, existing_ids, df[n]))
    /\ \A i \in 1..Len(writes) :
          DOMAIN writes[i].data # {} /\ ~AllBlank(df[writes[i].row])

\* An execution run that wrote a row and then met a row without mapped data.
C15_Witness ==
    /\ is_confirmed /\ Len(writes) >= 1
    /\ \E n \in Validated : AllBlank(df[n]) /\ outcome[n] = "nodata"

\* Where the generator no longer runs.
Stopped == {"cancelled", "done", "crashed"}

\* C17: rows are validated and written only by a generator the consumer has
\* resumed, a write only on resuming from the progress record; the consumer
\* can stop reading only at a record, and from then on no row is validated,
\* no write is issued and no record is produced; no step, the cancellation
\* included, takes back a write that was made.
C17_CancelStopsProcessing ==
    [][ /\ (pc = "cancelled") => UNCHANGED << outcome, writes, events, counters >>
        /\ (pc' = "cancelled") => (pc \in Yields /\ UNCHANGED << outcome, writes, events >>)
        /\ (outcome' # outcome \/ writes' # writes) => pc \notin Stopped
        /\ (writes' # writes) => pc = "yield_progress"
        /\ Len(writes') >= Len(writes) /\ SubSeq(writes', 1, Len(writes)) = writes ]_vars

\* An execution run cancelled after a write, with rows left in the table.
C17_Witness ==
    /\ pc = "cancelled" /\ is_confirmed
    /\ Len(writes) >= 1 /\ processed_count < total_rows
    /\ \A n \in DOMAIN outcome : n <= processed_count

\* The columns that are none of start, end, _id and username once trimmed
\* and lower-cased, and that are no key of the field index.
UnresolvedColumns ==
    { i \in 1..Len(columns) :
         /\ Lower(Strip(columns[i])) \notin MetaColumns
         /\ Lower(Strip(columns[i])) \notin DOMAIN path_map }

\* The route has run the column check.
ColumnCheckDone == pc = "start" \/ (pc = "responded" /\ response.kind = "mismatch")

\* C13: when the column check finds a column, other than the meta-columns
\* start, end, _id and username, that does not resolve in the field index,
\* the request ends with the field-mismatch error (status 400) and the
\* stream never starts: no row is validated, no record produced, no remote
\* write issued.
C13_UnresolvedColumnFailsRequest ==
    (ColumnCheckDone /\ UnresolvedColumns # {}) =>
        /\ pc = "responded"
        /\ response = [status |-> 400, kind |-> "mismatch"]
        /\ events = <<>> /\ writes = <<>>
        /\ DOMAIN outcome = {} /\ processed_count = 0

\* A request refused for a column that is not in the index, after the
\* table was read and the survey fetched and indexed.
C13_Witness ==
    /\ pc = "responded" /\ response.kind = "mismatch"
    /\ UnresolvedColumns # {} /\ DOMAIN path_map # {}
    /\ io = << "read_csv", "get_asset" >>

\* Every character of the text is a letter or a digit.
PurelyAlnum(v) == \A i \in 1..Len(v) : v[i] \in Alnum

\* The credential or the asset id is not what the schema asks for.
BadConfig ==
    \/ raw_data.token = None \/ Len(raw_data.token) < MinTokenLen
    \/ raw_data.asset_id = None \/ Len(raw_data.asset_id) < MinAssetLen
    \/ ~PurelyAlnum(raw_data.asset_id)

\* C14: a request whose credential is missing or shorter than 10 characters,
\* or whose asset id is missing, shorter than 5 characters or not purely
\* alphanumeric, ends in one error response with a status other than 200,
\* before the table is read and before any network call, and produces no
\* stream record.
C14_BadConfigRejected ==
    (BadConfig /\ pc # "config") =>
        /\ pc = "responded"
        /\ response.status \notin {0, 200}
        /\ io = <<>>
        /\ events = <<>>

\* Items of the given type among the items a..b of the survey.
CountType(type, a, b) == Cardinality({m \in a..b : survey[m].type = type})

\* The group opened by item j is still open after item k: no item after j
\* has closed more groups than were opened after j.
OpenAfter(j, k) ==
    /\ survey[j].type = "begin_group"
    /\ \A m \in (j + 1)..k :
          CountType("end_group", j + 1, m) <= CountType("begin_group", j + 1, m)

\* The names of the groups among items j..k that are open after item k,
\* outermost first.
RECURSIVE OpenNames(_, _)
OpenNames(j, k) ==
    IF j > k THEN <<>>
    ELSE (IF OpenAfter(j, k) THEN <<survey[j].name>> ELSE <<>>) \o OpenNames(j + 1, k)

\* Item k is a question the index registers.
IndexedLeaf(k) ==
    /\ survey[k].type \notin ExcludedTypes(op)
    /\ survey[k].name # NoName

\* The names of the groups open at item k, then the name of item k, joined by "/".
ExpectedPath(k) == JoinSlash(Append(OpenNames(1, k - 1), survey[k].name))

\* The index holds the path under its lower-cased text.
PathRegistered(path) ==
    /\ Lower(path) \in DOMAIN path_map
    /\ path_map[Lower(path)] = path
    /\ path \in DOMAIN types_map

\* C18: for every sequence of survey declarations, with more end_group than
\* begin_group ones too, the group stack holds the groups that are open,
\* outermost first, so an end_group met with no open group leaves it empty;
\* the path registered for a leaf is the names of the open groups followed
\* by the name of the leaf, joined by "/"; and the loop never fails.
C18_PathFollowsOpenGroups ==
    /\ group_stack = OpenNames(1, pos)
    /\ (pos >= 1 /\ IndexedLeaf(pos)) => PathRegistered(ExpectedPath(pos))
    /\ response.kind # "exception"

\* A leaf registered inside two nested groups, in a survey that starts with
\* an end_group no group was open for.
C18_Witness ==
    /\ pos = 4 /\ IndexedLeaf(pos)
    /\ survey[1].type = "end_group"
    /\ Len(group_stack) = 2
    /\ PathRegistered(FullPath(<<survey[2].name, survey[3].name>>, survey[4].name))

\* Column i names the indexed leaf k by its short name.
NamesLeaf(i, k) == IndexedLeaf(k) /\ Lower(Strip(columns[i])) = Lower(survey[k].name)

\* C16: in clone and in update, once the index is built every indexed leaf
\* is a key of the index under its lower-cased short name and under its
\* lower-cased full path, so no column that names an indexed leaf by its
\* short name is left unresolved by the column check.
C16_ShortNameAndFullPath ==
    (pc \in {"index", "start", "responded"} /\ pos = Len(survey)) =>
        /\ \A k \in 1..Len(survey) :
              IndexedLeaf(k) =>
                 /\ Lower(survey[k].name) \in DOMAIN path_map
                 /\ Lower(ExpectedPath(k)) \in DOMAIN path_map
        /\ \A i \in UnresolvedColumns : \A k \in 1..Len(survey) : ~NamesLeaf(i, k)

\* The classes of a normalized identifier, in the order they are tested.
IdEmpty(s) == s = <<>> \/ Lower(s) \in EmptyWords
IdMalformed(s) == ~IdEmpty(s) /\ (~IsDigit(s) \/ Len(s) \notin MinIdLen..MaxIdLen)

\* The rejection counters, and the message recorded for the first rejection.
RejectionCounts == << invalid_id_count, duplicate_id_count, not_found_count >>
FirstMessage == invalid_records_details[1].msg

\* The counters of a run over one row whose identifier s has the form of an
\* identifier: none moves unless the snapshot rejects s.
SnapshotCounts(s) ==
    IF op = "clone" THEN << 0, IF s \in existing_ids THEN 1 ELSE 0, 0 >>
    ELSE << 0, 0, IF s \in existing_ids THEN 0 ELSE 1 >>

\* C19: the normalized identifier of a row is tested in a fixed order.  One
\* that is empty or reads nan, null or none in any case is rejected as
\* empty; otherwise one that is not made of digits only, or whose length is
\* not 7 or 8, is rejected as malformed; only an identifier that passed both
\* is looked up in the snapshot.  A rejected row moves one rejection counter
\* at most.
C19_IdentifierCheckOrder ==
    (1 \in Validated) =>
        /\ invalid_id_count + duplicate_id_count + not_found_count <= 1
        /\ IdEmpty(SubId(df[1])) =>
              /\ outcome[1] = "error" /\ RejectionCounts = << 1, 0, 0 >>
              /\ FirstMessage = "ID is empty."
        /\ IdMalformed(SubId(df[1])) =>
              /\ outcome[1] = "error" /\ RejectionCounts = << 1, 0, 0 >>
              /\ FirstMessage = IF IsDigit(SubId(df[1]))
                                THEN "The _id length appears invalid for a Kobo record."
                                ELSE "The _id must contain only numbers."
        /\ (~IdEmpty(SubId(df[1])) /\ ~IdMalformed(SubId(df[1]))) =>
              /\ RejectionCounts = SnapshotCounts(SubId(df[1]))
              /\ (RejectionCounts # << 0, 0, 0 >>) => outcome[1] = "error"

\* A row whose identifier reads "nan" was rejected as empty, not as malformed.
C19_Witness ==
    /\ 1 \in Validated
    /\ Lower(SubId(df[1])) = <<"n","a","n">>
    /\ RejectionCounts = << 1, 0, 0 >> /\ FirstMessage = "ID is empty."

\* C20: normalizing an identifier cell (cut at the first point, then trim)
\* and normalizing the result again gives the same text as normalizing once.
C20_NormalizationIdempotent ==
    SubId([df[1] EXCEPT !["_id"] = SubId(df[1])]) = SubId(df[1])

\* A row was validated whose identifier cell has a space before the point:
\* normalization changed it, and the result is not changed again.
C20_Witness ==
    /\ 1 \in Validated
    /\ RawId(df[1]) = <<" ","1","2","3","4","5","6","7"," ",".">>
    /\ SubId(df[1]) = Id1
    /\ SubId([df[1] EXCEPT !["_id"] = Id1]) = Id1

\* C21: for a date field, a cell that reads as a date puts that date written
\* as YYYY-MM-DD in the payload and in the write, whatever layout the cell
\* has; a cell that does not read as a date rejects the row.
C21_DateNormalized ==
    (1 \in Validated /\ df[1]["d1"] # NaN) =>
        /\ to_datetime(Strip(df[1]["d1"])) = NoDate => outcome[1] = "error"
        /\ (to_datetime(Strip(df[1]["d1"])) # NoDate /\ outcome[1] = "ok") =>
              /\ data_payload["d1"] = strftime(to_datetime(Strip(df[1]["d1"])))
              /\ \A i \in WritesOf(1) :
                    writes[i].data["d1"] = strftime(to_datetime(Strip(df[1]["d1"])))

\* The value expected for each select_multiple cell whose tokens are all in
\* the list "tags", and the cells that hold a token outside the list.
MultiExpected ==
    [c \in {<<"a",","," ","b"," ","c">>, <<"a">>, <<" ","b"," "," ","a"," ">>, <<"c",",",",","a">>, <<",">>} |->
        IF c = <<"a",","," ","b"," ","c">> THEN <<"a"," ","b"," ","c">>
        ELSE IF c = <<"a">> THEN <<"a">>
        ELSE IF c = <<" ","b"," "," ","a"," ">> THEN <<"b"," ","a">>
        ELSE IF c = <<"c",",",",","a">> THEN <<"c"," ","a">>
        ELSE <<>>]
MultiRejected == { <<"a",",","d">>, <<"d">> }

\* C22: the trimmed cell of a select_multiple field is cut at commas and
\* whitespace into tokens.  A token outside the allowed values rejects the
\* row; otherwise the payload and the write hold the tokens in their order,
\* joined by one space: "a, b c" gives "a b c".  A cell with allowed tokens
\* only is rejected for its identifier or not at all.
C22_TokensJoinedBySpace ==
    (1 \in Validated /\ df[1]["m1"] # NaN) =>
        /\ df[1]["m1"] \in MultiRejected => outcome[1] = "error"
        /\ df[1]["m1"] \in DOMAIN MultiExpected =>
              /\ outcome[1] # "nodata"
              /\ outcome[1] = "error" => RejectionCounts # << 0, 0, 0 >>
              /\ outcome[1] = "ok" =>
                    /\ data_payload["m1"] = MultiExpected[df[1]["m1"]]
                    /\ \A i \in WritesOf(1) :
                          writes[i].data["m1"] = MultiExpected[df[1]["m1"]]

\* The cell "a, b c" was written as "a b c".
C22_Witness ==
    /\ is_confirmed /\ df[1]["m1"] = <<"a",","," ","b"," ","c">>
    /\ writes # <<>> /\ writes[1].data["m1"] = <<"a"," ","b"," ","c">>

\* C23: a select_one or select_multiple field whose list is not among the
\* choice lists has no allowed value, and no row with a non-empty cell in
\* its column is accepted.
C23_AbsentListRejectsAll ==
    /\ \A p \in {"x1", "y1"} : field_constraints[p].allowed = <<>>
    /\ \A col \in {"x1", "y1"} :
          (1 \in Validated /\ df[1][col] # NaN /\ Strip(df[1][col]) # <<>>) =>
              outcome[1] = "error"

\* C24: a read of the identifier list that fails (exception, or a status
\* other than 200) does not end the run: the run goes on with an empty
\* snapshot and stops early only for a write that raised.  With the empty
\* snapshot update rejects every row with a well-formed identifier as not
\* found and issues no patch, and clone rejects no row as a duplicate.
C24_FetchFailureNotFatal ==
    /\ (pc = "crashed") => (writes # <<>> /\ writes[Len(writes)].raised)
    /\ (pc # "start" /\ existing_ids = {}) =>
          /\ op = "update" =>
                /\ writes = <<>>
                /\ \A n \in Validated : WellFormedId(n) => outcome[n] = "error"
                /\ not_found_count = Cardinality({n \in Validated : WellFormedId(n)})
          /\ op = "clone" => duplicate_id_count = 0

\* An update run in execution mode that went through a table of two rows
\* with well-formed identifiers on an empty snapshot.
C24_Witness ==
    /\ op = "update" /\ is_confirmed /\ existing_ids = {}
    /\ pc \in Ended /\ total_rows >= 2
    /\ not_found_count >= 2

\* The rows the run rejected.
RejectedRows == {n \in DOMAIN outcome : outcome[n] = "error"}

\* C25: in preview mode as in execution mode, the err_detail list of the
\* terminal success record holds one message for each row the run rejected,
\* no more and no fewer, each naming its row's identifier.
C25_OneDetailPerRejection ==
    \A i \in EventsOf("success") :
        /\ Len(events[i].err_detail) = Cardinality(RejectedRows)
        /\ \A k \in 1..Len(events[i].err_detail) : events[i].err_detail[k].fmt = "ID"

\* The positions of the progress records in the stream.
ProgressEvents == EventsOf("progress")

\* C26: in every state of a run, committed writes <= writes issued <=
\* progress records emitted <= rows visited <= total rows, and the current
\* field of each progress record is the number of progress records emitted
\* up to and including it, which never exceeds the total.
C26_CounterOrdering ==
    /\ success_count <= Len(writes)
    /\ Len(writes) <= Cardinality(ProgressEvents)
    /\ Cardinality(ProgressEvents) = progress_count
    /\ progress_count <= processed_count
    /\ processed_count <= total_rows
    /\ \A i \in ProgressEvents :
          /\ events[i].current = Cardinality({j \in ProgressEvents : j <= i})
          /\ events[i].current <= events[i].total
          /\ events[i].total = total_rows

\* An execution run that rejected a row, then reported and wrote a later
\* row, with a write the remote did not commit.
C26_Witness ==
    /\ is_confirmed /\ pc \in Ended
    /\ invalid_id_count >= 1
    /\ success_count < Len(writes)
    /\ \E i \in ProgressEvents : events[i].current < processed_count
    /\ Len(writes) = progress_count /\ progress_count < processed_count

====
